---- MODULE Spec2Model ----
(***************************************************************************)
(* A model of monai/transforms/transforms.py: the array transforms are     *)
(* modelled on array shapes (and, where a claim needs it, on per-axis       *)
(* index maps or on small matrices), each transform instance as a small     *)
(* state machine: constructed, then called.  The transforms whose call      *)
(* stores something in the instance or draws from the random source         *)
(* (AsChannelFirst, RandRotate90) are called repeatedly.                    *)
(*                                                                         *)
(* One specification per transform: SpecCrop (SpatialCrop), SpecZoom        *)
(* (Zoom), SpecRand (RandRotate90), SpecPad (ImageEndPadder) and SpecACF    *)
(* (AsChannelFirst).  The variables of the transforms a specification       *)
(* does not exercise stay at their initial value.                           *)
(***************************************************************************)
EXTENDS Integers, Sequences, FiniteSets, TLC

VARIABLES
    \* ---- SpatialCrop instance and its last call
    crop_pc,        \* "new" | "built" | "ctor_failed" | "returned" | "failed"
    roi_center,     \* constructor argument roi_center (<<>> when not given)
    roi_size,       \* constructor argument roi_size   (<<>> when not given)
    roi_start,      \* self.roi_start
    roi_end,        \* self.roi_end
    roi_dtype,      \* "uint16" (numpy array) | "int" (python list) | "none"
    img_shape,      \* shape of the image of the last call, channel axis first
    data_shape,     \* shape of the returned crop (<<>> when the call failed)
    crop_err,       \* which statement of the call failed, "" when none
    copied,         \* TRUE iff the call reached a .copy() of a slice
    \* ---- Zoom instance and its last call
    zoom_pc,        \* "new" | "built" | "returned" | "failed"
    zoom,           \* self.zoom: [kind |-> "scalar" | "seq", v |-> factor(s)], in halves
    keep_size,      \* self.keep_size
    use_gpu,        \* self.use_gpu
    zoom_path,      \* which branch produced zoomed: "cpu" | "gpu" | the exception caught
    zin_shape,      \* img.shape of the last call
    zoomed_shape,   \* shape of the resampled array, before the reconciliation
    zout,           \* the returned array, one index map per axis (see PadAxis)
    zoom_err,       \* the exception the call raised, "" when none
    \* ---- RandRotate90 instance, its random source and its last call
    rr_pc,          \* "new" | "built"
    prob_arg,       \* constructor argument prob, in units of 1 / RandDen
    prob,           \* self.prob, in units of 1 / RandDen
    max_k,          \* self.max_k
    rr_axes,        \* self.axes
    do_transform,   \* self._do_transform
    rand_k,         \* self._rand_k
    draws,          \* the draws made from self.R so far, oldest first
    rr_calls,       \* number of calls that returned
    rr_img,         \* the argument of the last call (one channel, rows of a matrix)
    rr_out,         \* the result of the last call: [is_input, data]
    rr_err,         \* the exception the last call raised, "" when none
    \* ---- ImageEndPadder instance and its last call
    pad_pc,         \* "new" | "built" | "ctor_failed" | "returned" | "failed"
    out_size,       \* self.out_size
    pad_mode,       \* self.mode
    pad_in,         \* img.shape of the last call
    pad_width,      \* all_pad_width of the last call: one <<before, after>> per axis
    pad_out,        \* the returned array, one index map per axis
    pad_err,        \* the exception the last call raised, "" when none
    \* ---- AsChannelFirst instance and its last call
    acf_pc,         \* "new" | "built"
    channel_dim_arg, \* constructor argument channel_dim
    channel_dim,    \* self.channel_dim
    acf_in,         \* the argument of the last call: the label of each of its axes
    acf_out,        \* the result of the last call: the label of each of its axes
    acf_calls,      \* number of calls made
    acf_chain,      \* number of calls since a fresh array was passed in
    acf_err         \* the exception the last call raised, "" when none

cropVars == <<crop_pc, roi_center, roi_size, roi_start, roi_end, roi_dtype,
              img_shape, data_shape, crop_err, copied>>

zoomVars == <<zoom_pc, zoom, keep_size, use_gpu, zoom_path, zin_shape,
              zoomed_shape, zout, zoom_err>>

randVars == <<rr_pc, prob_arg, prob, max_k, rr_axes, do_transform, rand_k,
              draws, rr_calls, rr_img, rr_out, rr_err>>

padVars == <<pad_pc, out_size, pad_mode, pad_in, pad_width, pad_out, pad_err>>

acfVars == <<acf_pc, channel_dim_arg, channel_dim, acf_in, acf_out, acf_calls,
             acf_chain, acf_err>>

vars == <<cropVars, zoomVars, randVars, padVars, acfVars>>

-----------------------------------------------------------------------------
(* Bounds of the model and constants of the program.                       *)

\* largest coordinate / size / center offered to the SpatialCrop constructor
MaxCoord == 2
\* largest spatial extent of an image offered to SpatialCrop.__call__
MaxExt == 2
\* largest channel-axis length of an image
MaxChan == 2
\* largest axis length of an array offered to Zoom.__call__
MaxLen == 4
\* largest zoom factor offered to Zoom, counted in halves (4 is a factor of 2.0)
MaxZoom == 4
\* probabilities and random() values are multiples of 1 / RandDen
RandDen == 2
\* largest max_k offered to RandRotate90
MaxK == 3
\* largest number of calls of one RandRotate90 instance
MaxCalls == 3
\* largest axis length of an array offered to ImageEndPadder.__call__
MaxPadLen == 4
\* largest entry of out_size offered to ImageEndPadder
MaxOut == 6
\* largest number of spatial axes of an array offered to ImageEndPadder
MaxSpatial == 2
\* largest number of axes of an array offered to AsChannelFirst.__call__
MaxNdim == 4
\* np.uint16 arithmetic is modulo 2^16
U16 == 65536
\* SpatialCrop.__call__ has a branch for 1, 2 and 3 spatial dimensions
SupportedDims == 3
\* Zoom.__call__ slices the zoomed array on its first three axes
SlicedAxes == 3
\* ImageEndPadder.__call__ leaves the first two axes alone
LeadingAxes == 2

-----------------------------------------------------------------------------
(* Generic helpers.                                                        *)

Seqs(S, n) == [1..n -> S]

Max(a, b) == IF a >= b THEN a ELSE b

Min(a, b) == IF a <= b THEN a ELSE b

\* a sequence whose n entries all equal x
Const(n, x) == [i \in 1..n |-> x]

\* python's slice a[lo:hi] on an axis of length n: the clamped bound
SliceBound(i, n) == IF i < 0 THEN Max(i + n, 0) ELSE Min(i, n)

\* python's slice a[lo:hi] on an axis of length n: the length of the result
SliceLen(lo, hi, n) == Max(SliceBound(hi, n) - SliceBound(lo, n), 0)

\* numpy broadcasting of two 1-d operands of lengths m and r
Broadcastable(m, r) == m = r \/ m = 1 \/ r = 1

\* element i of a 1-d operand broadcast to length n
BAt(s, i) == IF Len(s) = 1 THEN s[1] ELSE s[i]

-----------------------------------------------------------------------------
(* Zoom                                                                    *)
(* A zoom factor is kept in halves: the integer z stands for z / 2.  An     *)
(* array is kept as one index map per axis: the sequence, along that axis,  *)
(* of the index (from 0) of the zoomed array each position shows, or Fill   *)
(* where np.pad wrote constant_values.  Slicing and padding act on each     *)
(* axis separately, so the maps of the axes describe the whole array.       *)

\* a position written by np.pad(..., mode='constant', constant_values=cval)
Fill == -1

\* python's round(num / den): round half to even
RoundHalfEven(num, den) ==
    LET q == num \div den
        r == num % den
    IN  IF 2 * r < den THEN q
        ELSE IF 2 * r > den THEN q + 1
        ELSE IF q % 2 = 0 THEN q ELSE q + 1

\* the factor of axis d (from 1): a scalar zoom applies to every axis
FactorAt(z, d) == IF z.kind = "scalar" THEN z.v ELSE z.v[d]

\* scipy.ndimage.zoom: output_shape[d] = int(round(input.shape[d] * zoom[d]))
ZoomedShape(shape, z) ==
    [d \in 1..Len(shape) |-> RoundHalfEven(shape[d] * FactorAt(z, d), 2)]

\* the index map of an untouched axis of length n
Identity(n) == [i \in 1..n |-> i - 1]

\* crop_vec without the assignment of line 311
CropVecNoCrop(shape, zs) == zs

\* crop_vec after the loop of Zoom.__call__
CropVec(shape, zs) ==
    [d \in 1..Len(shape) |-> IF zs[d] > shape[d] THEN shape[d] ELSE zs[d]]

\* pad_vec with the commented-out line 313 instead of lines 314-315
PadVecAtEnd(shape, zs) ==
    [d \in 1..Len(shape) |->
        IF zs[d] < shape[d] THEN <<0, shape[d] - zs[d]>> ELSE <<0, 0>>]

\* pad_vec after the loop of Zoom.__call__: floor and ceil of half the gap
PadVec(shape, zs) ==
    [d \in 1..Len(shape) |->
        IF zs[d] > shape[d] THEN <<0, 0>>
        ELSE IF zs[d] < shape[d]
        THEN <<(shape[d] - zs[d]) \div 2,
               (shape[d] - zs[d]) - ((shape[d] - zs[d]) \div 2)>>
        ELSE <<0, 0>>]

\* zoomed[0:crop_vec[0], 0:crop_vec[1], 0:crop_vec[2]]: only the first
\* SlicedAxes axes are sliced, the others are taken whole
SliceAxes(zs, crop_vec) ==
    [d \in 1..Len(zs) |->
        IF d <= SlicedAxes THEN Identity(SliceLen(0, crop_vec[d], zs[d]))
        ELSE Identity(zs[d])]

\* np.pad of one axis: before entries of fill, the axis, after entries of fill
PadAxis(axis, before, after) == Const(before, Fill) \o axis \o Const(after, Fill)

\* np.pad(zoomed, pad_vec, mode='constant', constant_values=cval)
PadAxes(axes, pad_vec) ==
    [d \in 1..Len(axes) |-> PadAxis(axes[d], pad_vec[d][1], pad_vec[d][2])]

\* the shape of an array kept as index maps
ShapeOf(axes) == [d \in 1..Len(axes) |-> Len(axes[d])]

\* Zoom.__call__ from the resampling on; path is the branch that resampled
ZoomCall(z, keep, shape) ==
    LET zs == ZoomedShape(shape, z)
        fail(msg) == [err |-> msg, zoomed |-> <<>>, out |-> <<>>]
    IN  IF z.kind = "seq" /\ Len(z.v) # Len(shape)
        THEN fail("sequence argument must have length equal to input rank")
        ELSE IF ~keep
        THEN [err |-> "", zoomed |-> zs, out |-> [d \in 1..Len(zs) |-> Identity(zs[d])]]
        ELSE IF Len(shape) < SlicedAxes
        THEN [err |-> "list index out of range", zoomed |-> zs, out |-> <<>>]
        ELSE [err |-> "", zoomed |-> zs,
              out |-> PadAxes(SliceAxes(zs, CropVec(shape, zs)), PadVec(shape, zs))]

\* ---- inputs

\* zoom factors in halves, from 0.5 to MaxZoom / 2
ZoomFactors == 1..MaxZoom

\* axis lengths: 2 (so that half of an axis still has an element) and the
\* two largest
ZoomLens == {2, MaxLen - 1, MaxLen}

\* shapes of 1..SlicedAxes + 1 axes
ZoomShapes == UNION {Seqs(ZoomLens, n) : n \in 1..SlicedAxes + 1}

\* a scalar zoom, or one factor per axis
ZoomArgs ==
    {[kind |-> "scalar", v |-> f] : f \in ZoomFactors}
    \cup UNION {{[kind |-> "seq", v |-> q] : q \in Seqs(ZoomFactors, n)} :
                n \in 1..SlicedAxes + 1}

\* the branch that resamples: the GPU one, or the CPU one after one of the
\* two exceptions the GPU branch catches, or the CPU one when use_gpu is off
ZoomPaths(gpu) ==
    IF gpu THEN {"gpu", "ModuleNotFoundError", "NotImplementedError"} ELSE {"cpu"}

ZoomIdle ==
    /\ zoom_pc = "new"
    /\ zoom = [kind |-> "scalar", v |-> 0]
    /\ keep_size = FALSE
    /\ use_gpu = FALSE
    /\ zoom_path = ""
    /\ zin_shape = <<>>
    /\ zoomed_shape = <<>>
    /\ zout = <<>>
    /\ zoom_err = ""

\* Zoom(zoom=z, use_gpu=g, keep_size=k)
ConstructZoom ==
    /\ zoom_pc = "new"
    /\ \E z \in ZoomArgs, k \in BOOLEAN, g \in BOOLEAN :
          /\ zoom' = z
          /\ keep_size' = k
          /\ use_gpu' = g
    /\ zoom_pc' = "built"
    /\ UNCHANGED <<zoom_path, zin_shape, zoomed_shape, zout, zoom_err>>
    /\ UNCHANGED <<cropVars, randVars, padVars, acfVars>>

\* zoomer(img): the call reads the configuration and stores nothing
CallZoom ==
    /\ zoom_pc = "built"
    /\ \E shape \in ZoomShapes, path \in ZoomPaths(use_gpu) :
          LET c == ZoomCall(zoom, keep_size, shape)
          IN  /\ zoom_pc' = IF c.err = "" THEN "returned" ELSE "failed"
              /\ zoom_path' = path
              /\ zin_shape' = shape
              /\ zoomed_shape' = c.zoomed
              /\ zout' = c.out
              /\ zoom_err' = c.err
    /\ UNCHANGED <<zoom, keep_size, use_gpu>>
    /\ UNCHANGED <<cropVars, randVars, padVars, acfVars>>

-----------------------------------------------------------------------------
(* Rotate90 and RandRotate90                                               *)
(* An image is kept as the matrix of its one channel (a sequence of rows),  *)
(* so the image axes 1 and 2 are the rows and the columns of the matrix.    *)

Rows(m) == Len(m)

Cols(m) == IF Len(m) = 0 THEN 0 ELSE Len(m[1])

\* np.flip(m, axis) for image axis 1 (rows) or 2 (columns)
FlipAxis(m, axis) ==
    IF axis = 1
    THEN [i \in 1..Rows(m) |-> m[Rows(m) + 1 - i]]
    ELSE [i \in 1..Rows(m) |-> [j \in 1..Cols(m) |-> m[i][Cols(m) + 1 - j]]]

\* np.transpose(m, axes) with image axes 1 and 2 exchanged
SwapAxes(m) == [i \in 1..Cols(m) |-> [j \in 1..Rows(m) |-> m[j][i]]]

\* np.rot90(m, k, axes) as numpy computes it
Rot90(m, k, axes) ==
    LET kk == k % 4
    IN  IF kk = 0 THEN m
        ELSE IF kk = 2 THEN FlipAxis(FlipAxis(m, axes[1]), axes[2])
        ELSE IF kk = 1 THEN SwapAxes(FlipAxis(m, axes[2]))
        ELSE FlipAxis(SwapAxes(m), axes[2])

\* Rotate90(k, axes)(img): a freshly laid out array, never the argument
Rotate90Call(img, k, axes) == [is_input |-> FALSE, data |-> Rot90(img, k, axes)]

\* self.prob = min(max(prob, 0.0), 1.0)
ClampProb(p) == Min(Max(p, 0), RandDen)

\* self.R.random() < self.prob, with <= in place of <
DecideInclusive(u, p) == u <= p

\* self.R.random() < self.prob
Decide(u, p) == u < p

\* randomize() drawing the rotation count only when the rotation is applied
RandomizeLazy(r, u, p) ==
    [rand_k |-> r + 1,
     do_transform |-> Decide(u, p),
     drawn |-> IF Decide(u, p) THEN <<"random", "randint">> ELSE <<"random">>]

\* RandRotate90.randomize(): r is the value of self.R.randint(self.max_k),
\* u the value of self.R.random(); drawn lists the draws in the order made
Randomize(r, u, p) ==
    [rand_k |-> r + 1,
     do_transform |-> Decide(u, p),
     drawn |-> <<"randint", "random">>]

\* ---- inputs

\* prob arguments from below 0 to above 1
ProbInputs == -1..RandDen + 1

\* values of self.R.random(): the multiples of 1 / RandDen in [0, 1)
RandomValues == 0..RandDen - 1

\* values of self.R.randint(k): 0 .. k - 1
RandintValues(k) == 0..k - 1

\* the plane of rotation: the default (1, 2) and its reverse
AxesInputs == {<<1, 2>>, <<2, 1>>}

\* the 2 x 2 image of the module's closing example and a 2-element-tall one
RotImages == {<<<<1, 2>>, <<3, 4>>>>, <<<<1>>, <<2>>>>}

RandIdle ==
    /\ rr_pc = "new"
    /\ prob_arg = 0
    /\ prob = 0
    /\ max_k = 0
    /\ rr_axes = <<1, 2>>
    /\ do_transform = FALSE
    /\ rand_k = 0
    /\ draws = <<>>
    /\ rr_calls = 0
    /\ rr_img = <<>>
    /\ rr_out = [is_input |-> TRUE, data |-> <<>>]
    /\ rr_err = ""

\* RandRotate90(prob=p, max_k=k, axes=a)
ConstructRandRotate90 ==
    /\ rr_pc = "new"
    /\ \E p \in ProbInputs, k \in 0..MaxK, a \in AxesInputs :
          /\ prob_arg' = p
          /\ prob' = ClampProb(p)
          /\ max_k' = k
          /\ rr_axes' = a
    /\ rr_pc' = "built"
    /\ do_transform' = FALSE
    /\ rand_k' = 0
    /\ UNCHANGED <<draws, rr_calls, rr_img, rr_out, rr_err>>
    /\ UNCHANGED <<cropVars, zoomVars, padVars, acfVars>>

\* rotator(img): randint(max_k) raises ValueError when max_k <= 0, before
\* anything is drawn or stored
CallRandRotate90 ==
    /\ rr_pc = "built"
    /\ rr_calls < MaxCalls
    /\ \E img \in RotImages :
          /\ rr_img' = img
          /\ IF max_k <= 0
             THEN /\ rr_err' = "ValueError"
                  /\ rr_out' = [is_input |-> TRUE, data |-> <<>>]
                  /\ UNCHANGED <<do_transform, rand_k, draws, rr_calls>>
             ELSE \E r \in RandintValues(max_k), u \in RandomValues :
                     LET z == Randomize(r, u, prob)
                     IN  /\ rand_k' = z.rand_k
                         /\ do_transform' = z.do_transform
                         /\ draws' = draws \o z.drawn
                         /\ rr_calls' = rr_calls + 1
                         /\ rr_err' = ""
                         /\ rr_out' = IF ~z.do_transform
                                      THEN [is_input |-> TRUE, data |-> img]
                                      ELSE Rotate90Call(img, z.rand_k, rr_axes)
    /\ UNCHANGED <<rr_pc, prob_arg, prob, max_k, rr_axes>>
    /\ UNCHANGED <<cropVars, zoomVars, padVars, acfVars>>

-----------------------------------------------------------------------------
(* ImageEndPadder                                                          *)
(* The padded array is kept as one index map per axis, as for Zoom: the     *)
(* index (from 0) of the input each position shows, or Fill where np.pad    *)
(* wrote its constant (0, the default constant_values).                     *)

\* img.shape[1:]: every axis but the first taken as data
DataShapeFromAxisOne(shape) == SubSeq(shape, 2, Len(shape))

\* img.shape[2:]
DataShape(shape) == SubSeq(shape, LeadingAxes + 1, Len(shape))

\* _determine_data_pad_width with the padding put before the data
PadWidthBefore(size, shape) ==
    [i \in 1..Len(size) |-> <<Max(size[i] - shape[i], 0), 0>>]

\* ImageEndPadder._determine_data_pad_width(data_shape), for
\* len(out_size) <= len(data_shape)
DetermineDataPadWidth(size, shape) ==
    [i \in 1..Len(size) |-> <<0, Max(size[i] - shape[i], 0)>>]

\* np.pad of one axis of length n in the given mode: 'constant' writes the
\* constant, 'edge' repeats the first and the last element
NpPadAxis(n, before, after, mode) ==
    IF mode = "constant" THEN PadAxis(Identity(n), before, after)
    ELSE Const(before, 0) \o Identity(n) \o Const(after, n - 1)

\* ImageEndPadder.__call__ on an array of the given shape
PadCall(size, mode, shape) ==
    LET spatial == DataShape(shape)
        fail(msg) == [err |-> msg, width |-> <<>>, out |-> <<>>]
    IN  IF Len(size) > Len(spatial) THEN fail("IndexError")
        ELSE LET all_pad_width ==
                     Const(LeadingAxes, <<0, 0>>) \o DetermineDataPadWidth(size, spatial)
             IN  IF Len(all_pad_width) # Len(shape)
                 THEN [err |-> "ValueError", width |-> all_pad_width, out |-> <<>>]
                 ELSE [err |-> "", width |-> all_pad_width,
                       out |-> [d \in 1..Len(shape) |->
                                  NpPadAxis(shape[d], all_pad_width[d][1],
                                            all_pad_width[d][2], mode)]]

\* ---- inputs

\* axis lengths: 1 and the two largest
PadLens == {1, MaxPadLen - 1, MaxPadLen}

\* entries of out_size: below, at and above the axis lengths
OutSizes == {1, MaxPadLen, MaxOut}

\* arrays of 1 .. LeadingAxes + MaxSpatial axes
PadShapes == UNION {Seqs(PadLens, n) : n \in 1..LeadingAxes + MaxSpatial}

\* out_size: a list of 0 .. MaxSpatial + 1 entries, or None
OutSizeInputs ==
    UNION {{[is_list |-> TRUE, v |-> q] : q \in Seqs(OutSizes, n)} :
           n \in 0..MaxSpatial + 1}
    \cup {[is_list |-> FALSE, v |-> <<>>]}

\* two modes of np.pad
PadModes == {"constant", "edge"}

PadIdle ==
    /\ pad_pc = "new"
    /\ out_size = <<>>
    /\ pad_mode = ""
    /\ pad_in = <<>>
    /\ pad_width = <<>>
    /\ pad_out = <<>>
    /\ pad_err = ""

\* ImageEndPadder(out_size=size, mode=mode)
ConstructImageEndPadder ==
    /\ pad_pc = "new"
    /\ \E size \in OutSizeInputs, mode \in PadModes :
          IF ~size.is_list
          THEN /\ pad_pc' = "ctor_failed"
               /\ UNCHANGED <<out_size, pad_mode>>
          ELSE /\ pad_pc' = "built"
               /\ out_size' = size.v
               /\ pad_mode' = mode
    /\ UNCHANGED <<pad_in, pad_width, pad_out, pad_err>>
    /\ UNCHANGED <<cropVars, zoomVars, randVars, acfVars>>

\* padder(img): the call reads the configuration and stores nothing
CallImageEndPadder ==
    /\ pad_pc = "built"
    /\ \E shape \in PadShapes :
          LET c == PadCall(out_size, pad_mode, shape)
          IN  /\ pad_pc' = IF c.err = "" THEN "returned" ELSE "failed"
              /\ pad_in' = shape
              /\ pad_width' = c.width
              /\ pad_out' = c.out
              /\ pad_err' = c.err
    /\ UNCHANGED <<out_size, pad_mode>>
    /\ UNCHANGED <<cropVars, zoomVars, randVars, acfVars>>

-----------------------------------------------------------------------------
(* AsChannelFirst                                                          *)
(* An array is kept as the sequence of the labels of its axes: a fresh      *)
(* array of n axes is <<0, ..., n - 1>>, and np.transpose(img, perm) is the  *)
(* array whose axis i is axis perm[i] of img.                               *)

\* list(range(ndim)) with the first occurrence of x removed
RangeWithout(ndim, x) ==
    [i \in 1..ndim - 1 |-> IF i - 1 < x THEN i - 1 ELSE i]

\* np.transpose(img, perm): perm holds axis numbers from 0
NpTranspose(img, perm) == [i \in 1..Len(perm) |-> img[perm[i] + 1]]

\* the first statement of AsChannelFirst.__call__: the default -1 is replaced,
\* in the instance, by the last axis of this argument
ResolveChannelDim(cd, ndim) == IF cd = -1 THEN ndim - 1 ELSE cd

\* AsChannelFirst.__call__ moving the channel axis to the last position
AcfCallChannelLast(cd, img) ==
    LET ndim == Len(img)
        c == ResolveChannelDim(cd, ndim)
    IN  IF c \notin 0..ndim - 1
        THEN [channel_dim |-> c, err |-> "ValueError", out |-> <<>>]
        ELSE [channel_dim |-> c, err |-> "",
              out |-> NpTranspose(img, RangeWithout(ndim, c) \o <<c>>)]

\* AsChannelFirst.__call__(img) with self.channel_dim = cd: the channel_dim
\* the call leaves in the instance, and its result
AcfCall(cd, img) ==
    LET ndim == Len(img)
        c == ResolveChannelDim(cd, ndim)
    IN  IF c \notin 0..ndim - 1
        THEN [channel_dim |-> c, err |-> "ValueError", out |-> <<>>]
        ELSE [channel_dim |-> c, err |-> "",
              out |-> NpTranspose(img, <<c>> \o RangeWithout(ndim, c))]

\* ---- inputs

\* channel_dim arguments: the default -1, every axis, and one value below
\* and one above the axes
ChannelDimInputs == -2..MaxNdim

\* fresh arrays of 1..MaxNdim axes
FreshArrays == {Identity(n) : n \in 1..MaxNdim}

AcfIdle ==
    /\ acf_pc = "new"
    /\ channel_dim_arg = -1
    /\ channel_dim = -1
    /\ acf_in = <<>>
    /\ acf_out = <<>>
    /\ acf_calls = 0
    /\ acf_chain = 0
    /\ acf_err = ""

\* AsChannelFirst(channel_dim=c)
ConstructAsChannelFirst ==
    /\ acf_pc = "new"
    /\ \E c \in ChannelDimInputs :
          /\ channel_dim_arg' = c
          /\ channel_dim' = c
    /\ acf_pc' = "built"
    /\ UNCHANGED <<acf_in, acf_out, acf_calls, acf_chain, acf_err>>
    /\ UNCHANGED <<cropVars, zoomVars, randVars, padVars>>

\* transform(img), on a fresh array or on the result of the call before
CallAsChannelFirst ==
    /\ acf_pc = "built"
    /\ acf_calls < MaxCalls
    /\ \E fresh \in BOOLEAN :
       \E img \in IF fresh THEN FreshArrays
                  ELSE IF acf_calls > 0 /\ acf_err = "" THEN {acf_out} ELSE {} :
          LET c == AcfCall(channel_dim, img)
          IN  /\ channel_dim' = c.channel_dim
              /\ acf_in' = img
              /\ acf_out' = c.out
              /\ acf_err' = c.err
              /\ acf_chain' = IF fresh THEN 1 ELSE acf_chain + 1
    /\ acf_calls' = acf_calls + 1
    /\ UNCHANGED <<acf_pc, channel_dim_arg>>
    /\ UNCHANGED <<cropVars, zoomVars, randVars, padVars>>

-----------------------------------------------------------------------------
(* SpatialCrop                                                             *)

\* np.asarray(x, dtype=np.uint16), elementwise
AsUint16(s) == [i \in 1..Len(s) |-> s[i] % U16]

\* SpatialCrop.__init__, the (roi_center, roi_size) branch
InitCenterSize(center, size) ==
    IF \E i \in 1..Len(center) : ~(center[i] > 0)
    THEN [ok |-> FALSE, start |-> <<>>, end |-> <<>>, dtype |-> "none"]
    ELSE IF \E i \in 1..Len(size) : ~(size[i] > 0)
    THEN [ok |-> FALSE, start |-> <<>>, end |-> <<>>, dtype |-> "none"]
    ELSE LET c == AsUint16(center)
             s == AsUint16(size)
             st == [i \in 1..Len(c) |-> (c[i] - (s[i] \div 2)) % U16]
             en == [i \in 1..Len(c) |-> (st[i] + s[i]) % U16]
         IN  [ok |-> TRUE, start |-> st, end |-> en, dtype |-> "uint16"]

\* SpatialCrop.__init__, the (roi_start, roi_end) branch
InitStartEnd(start, end) ==
    IF \E i \in 1..Len(start) : ~(start[i] >= 0)
    THEN [ok |-> FALSE, start |-> <<>>, end |-> <<>>, dtype |-> "none"]
    ELSE IF \E i \in 1..Len(end) : ~(end[i] > 0)
    THEN [ok |-> FALSE, start |-> <<>>, end |-> <<>>, dtype |-> "none"]
    ELSE [ok |-> TRUE, start |-> start, end |-> end, dtype |-> "int"]

\* np.subtract(roi_end, roi_start)[i]: both operands are uint16 arrays after
\* the (center, size) branch, so the difference wraps; python lists give int64
RangeDiff(start, end, dtype, i) ==
    IF dtype = "uint16" THEN (end[i] - start[i]) % U16 ELSE end[i] - start[i]

\* CropShape with the stop of every slice taken inclusively
CropShapeInclusiveEnd(start, end, shape) ==
    [d \in 1..Len(shape) |->
        IF d = 1 \/ d - 1 > Len(start) THEN shape[d]
        ELSE SliceLen(start[d - 1], end[d - 1] + 1, shape[d])]

\* the slicing of SpatialCrop.__call__: the shape of
\* img[:, start[0]:end[0], ...] for an image of the given shape
CropShape(start, end, shape) ==
    [d \in 1..Len(shape) |->
        IF d = 1 \/ d - 1 > Len(start) THEN shape[d]
        ELSE SliceLen(start[d - 1], end[d - 1], shape[d])]

\* SpatialCrop.__call__ on an image of the given shape (channel axis first)
CropCall(start, end, dtype, shape) ==
    LET max_end == SubSeq(shape, 2, Len(shape))
        m == Len(max_end)
        r == Len(start)
        n == Max(m, r)
        fail(msg) == [err |-> msg, shape |-> <<>>, copied |-> FALSE]
    IN  IF ~Broadcastable(m, r) THEN fail("operands could not be broadcast")
        ELSE IF \E i \in 1..n : ~(BAt(max_end, i) - BAt(start, i) >= 0)
        THEN fail("roi start out of image space.")
        ELSE IF \E i \in 1..n : ~(BAt(max_end, i) - BAt(end, i) >= 0)
        THEN fail("roi end out of image space.")
        ELSE IF \E i \in 1..r : ~(RangeDiff(start, end, dtype, i) >= 0)
        THEN fail("invalid roi range.")
        ELSE IF r > SupportedDims THEN fail("unsupported image shape.")
        ELSE IF r > m THEN fail("too many indices for array")
        ELSE [err |-> "", shape |-> CropShape(start, end, shape), copied |-> TRUE]

\* ---- inputs offered to the constructor and to the call

\* per-axis entries for roi_start / roi_end: -1 and 0 exercise the assertions
CoordInputs == -1..MaxCoord

\* per-axis entries for roi_center: 0 exercises the assertion, 2^15 is the
\* smallest center whose roi_start + roi_size can wrap past 2^16
CenterInputs == (0..MaxCoord) \cup {U16 \div 2}

\* per-axis entries for roi_size: 0 exercises the assertion, sizes up to
\* 2 * MaxCoord make size // 2 exceed a center, 2^16 - 1 is the largest uint16
SizeInputs == (0..2 * MaxCoord) \cup {U16 - 1}

\* pairs of sequences of n entries, both with the same entry on every axis
UniformPairs(A, B, n) == {<<Const(n, a), Const(n, b)>> : a \in A, b \in B}

\* pairs of sequences of n entries
AllPairs(A, B, n) == Seqs(A, n) \X Seqs(B, n)

\* (roi_start, roi_end) arguments: every combination on 1..SupportedDims axes,
\* and on SupportedDims + 1 axes (the unsupported case) the uniform ones
StartEndInputs ==
    UNION {AllPairs(CoordInputs, CoordInputs, n) : n \in 1..SupportedDims}
    \cup UniformPairs(CoordInputs, CoordInputs, SupportedDims + 1)

\* (roi_center, roi_size) arguments: every combination on fewer than
\* SupportedDims axes, the uniform ones on SupportedDims axes
CenterSizeInputs ==
    UNION {AllPairs(CenterInputs, SizeInputs, n) : n \in 1..SupportedDims - 1}
    \cup UniformPairs(CenterInputs, SizeInputs, SupportedDims)

\* image shapes: a channel axis and 1..SupportedDims spatial axes
ImageShapes ==
    UNION {{<<c>> \o s : c \in 1..MaxChan, s \in Seqs(1..MaxExt, n)} :
           n \in 1..SupportedDims}

CropIdle ==
    /\ crop_pc = "new"
    /\ roi_center = <<>>
    /\ roi_size = <<>>
    /\ roi_start = <<>>
    /\ roi_end = <<>>
    /\ roi_dtype = "none"
    /\ img_shape = <<>>
    /\ data_shape = <<>>
    /\ crop_err = ""
    /\ copied = FALSE

\* SpatialCrop(roi_center=center, roi_size=size)
ConstructCenterSize ==
    /\ crop_pc = "new"
    /\ \E a \in CenterSizeInputs :
          LET b == InitCenterSize(a[1], a[2])
          IN  /\ crop_pc' = IF b.ok THEN "built" ELSE "ctor_failed"
              /\ roi_center' = IF b.ok THEN a[1] ELSE <<>>
              /\ roi_size' = IF b.ok THEN a[2] ELSE <<>>
              /\ roi_start' = b.start
              /\ roi_end' = b.end
              /\ roi_dtype' = b.dtype
    /\ UNCHANGED <<img_shape, data_shape, crop_err, copied>>
    /\ UNCHANGED <<zoomVars, randVars, padVars, acfVars>>

\* SpatialCrop(roi_start=start, roi_end=end)
ConstructStartEnd ==
    /\ crop_pc = "new"
    /\ \E a \in StartEndInputs :
          LET b == InitStartEnd(a[1], a[2])
          IN  /\ crop_pc' = IF b.ok THEN "built" ELSE "ctor_failed"
              /\ roi_start' = b.start
              /\ roi_end' = b.end
              /\ roi_dtype' = b.dtype
    /\ UNCHANGED <<roi_center, roi_size, img_shape, data_shape, crop_err, copied>>
    /\ UNCHANGED <<zoomVars, randVars, padVars, acfVars>>

\* cropper(img): the call reads the stored ROI and its argument and stores
\* nothing in the instance, so one call per instance shows every call
CallCrop ==
    /\ crop_pc = "built"
    /\ \E shape \in ImageShapes :
          LET c == CropCall(roi_start, roi_end, roi_dtype, shape)
          IN  /\ crop_pc' = IF c.err = "" THEN "returned" ELSE "failed"
              /\ img_shape' = shape
              /\ data_shape' = c.shape
              /\ crop_err' = c.err
              /\ copied' = c.copied
    /\ UNCHANGED <<roi_center, roi_size, roi_start, roi_end, roi_dtype>>
    /\ UNCHANGED <<zoomVars, randVars, padVars, acfVars>>


-----------------------------------------------------------------------------
(* The specifications: one transform each, the others idle.                *)

Idle == CropIdle /\ ZoomIdle /\ RandIdle /\ PadIdle /\ AcfIdle

InitCrop == Idle

NextCrop == ConstructCenterSize \/ ConstructStartEnd \/ CallCrop

SpecCrop == InitCrop /\ [][NextCrop]_vars

InitZoom == Idle

NextZoom == ConstructZoom \/ CallZoom

SpecZoom == InitZoom /\ [][NextZoom]_vars

InitRand == Idle

NextRand == ConstructRandRotate90 \/ CallRandRotate90

SpecRand == InitRand /\ [][NextRand]_vars

InitPad == Idle

NextPad == ConstructImageEndPadder \/ CallImageEndPadder

SpecPad == InitPad /\ [][NextPad]_vars

InitACF == Idle

NextACF == ConstructAsChannelFirst \/ CallAsChannelFirst

SpecACF == InitACF /\ [][NextACF]_vars

-----------------------------------------------------------------------------
(* Properties of SpatialCrop, checked under SpecCrop.                      *)

\* the call has been made (it returned or it failed)
CropCalled == crop_pc \in {"returned", "failed"}

\* the stored ROI has one entry per spatial axis of the image of the call
RoiMatchesImage ==
    /\ Len(roi_start) = Len(img_shape) - 1
    /\ Len(roi_end) = Len(img_shape) - 1

\* 0 <= start <= end <= spatial extent on every axis
RoiWithinImage ==
    \A i \in 1..Len(roi_start) :
        /\ 0 <= roi_start[i]
        /\ roi_start[i] <= roi_end[i]
        /\ roi_end[i] <= img_shape[i + 1]

\* C1: for an image with the channel axis first and 1, 2 or 3 spatial axes
\* and a stored ROI with 0 <= start <= end <= extent on every axis, the call
\* returns an array whose spatial shape is end - start on every axis and
\* whose channel axis has the length of the input's channel axis.
C1_CropShape ==
    (CropCalled /\ RoiMatchesImage /\ Len(roi_start) <= SupportedDims
        /\ RoiWithinImage)
    => /\ crop_pc = "returned"
       /\ Len(data_shape) = Len(img_shape)
       /\ data_shape[1] = img_shape[1]
       /\ \A i \in 1..Len(roi_start) : data_shape[i + 1] = roi_end[i] - roi_start[i]

\* a 3-d crop that starts after the first voxel on one axis, stops before
\* the last voxel on one axis, and keeps more than one channel
C1_Witness ==
    /\ crop_pc = "returned"
    /\ RoiMatchesImage
    /\ RoiWithinImage
    /\ Len(roi_start) = SupportedDims
    /\ img_shape[1] > 1
    /\ \E i \in 1..Len(roi_start) : roi_start[i] > 0
    /\ \E i \in 1..Len(roi_start) : roi_end[i] < img_shape[i + 1]
    /\ \E i \in 1..Len(roi_start) : roi_end[i] = roi_start[i]

\* C2: the call fails, before any slice is copied, whenever on some axis the
\* stored ROI has start < 0, end > extent or end < start; it returns a crop
\* only when start >= 0, end <= extent and end >= start hold on every axis.
C2_FailsOutsideImage ==
    (CropCalled /\ RoiMatchesImage)
    => /\ ~RoiWithinImage => (crop_pc = "failed" /\ ~copied)
       /\ crop_pc = "returned" => RoiWithinImage

\* C3: a SpatialCrop built from (roi_center, roi_size), all entries positive,
\* stores roi_start = center - size // 2 and roi_end = roi_start + size as
\* integers on every axis, also when size // 2 exceeds center.
C3_CenterSizeToStartEnd ==
    (crop_pc = "built" /\ roi_dtype = "uint16")
    => \A i \in 1..Len(roi_center) :
          /\ roi_start[i] = roi_center[i] - (roi_size[i] \div 2)
          /\ roi_end[i] = roi_start[i] + roi_size[i]
          /\ roi_end[i] - roi_start[i] = roi_size[i]

-----------------------------------------------------------------------------
(* Properties of Zoom, checked under SpecZoom.                             *)

\* the zoom argument fits the array of the call: a scalar, or one factor per axis
ZoomFitsInput == zoom.kind = "scalar" \/ Len(zoom.v) = Len(zin_shape)

\* every factor is greater than 1 (greater than 2 halves)
ZoomsIn == \A d \in 1..Len(zin_shape) : FactorAt(zoom, d) > 2

\* C4: for a 3-axis input and keep_size=True the output shape of the call
\* equals the input shape on all three axes for every zoom factor greater
\* than 1, scalar or per-axis, whatever shape the resampling produced.
C4_KeepSizeShape ==
    (zoom_pc \in {"returned", "failed"} /\ keep_size /\ Len(zin_shape) = 3
        /\ ZoomFitsInput /\ ZoomsIn)
    => /\ zoom_pc = "returned"
       /\ ShapeOf(zout) = zin_shape

\* a 3-axis call with three different factors above 1, resampled to a
\* larger array on every axis
C4_Witness ==
    /\ zoom_pc = "returned"
    /\ keep_size
    /\ Len(zin_shape) = 3
    /\ zoom.kind = "seq"
    /\ ZoomsIn
    /\ zoom.v[1] # zoom.v[2]
    /\ \A d \in 1..3 : zoomed_shape[d] > zin_shape[d]

\* axis d of the result is the zoomed axis cropped to positions
\* [0, original length)
CroppedFromStart(d) ==
    /\ Len(zout[d]) = zin_shape[d]
    /\ \A i \in 1..Len(zout[d]) : zout[d][i] = i - 1

\* axis d of the result is the whole zoomed axis with floor(gap / 2) fill
\* elements before it and ceil(gap / 2) after it
PaddedBothSides(d) ==
    LET gap == zin_shape[d] - zoomed_shape[d]
        before == gap \div 2
        after == (gap + 1) \div 2
    IN  /\ Len(zout[d]) = before + zoomed_shape[d] + after
        /\ \A i \in 1..Len(zout[d]) :
              zout[d][i] = IF i <= before \/ i > before + zoomed_shape[d]
                           THEN Fill ELSE i - before - 1

\* axis d of the result is the zoomed axis, neither cropped nor padded
KeepsZoomedAxis(d) ==
    /\ Len(zout[d]) = zoomed_shape[d]
    /\ \A i \in 1..Len(zout[d]) : zout[d][i] = i - 1

\* axis d is reconciled: cropped from the start when longer, padded on both
\* sides when shorter, left alone when equal
Reconciled(d) ==
    IF zoomed_shape[d] > zin_shape[d] THEN CroppedFromStart(d)
    ELSE IF zoomed_shape[d] < zin_shape[d] THEN PaddedBothSides(d)
    ELSE KeepsZoomedAxis(d)

\* C5 as stated: with keep_size=True the first three axes are reconciled and
\* every axis with index 3 or higher keeps its zoomed length, neither cropped
\* nor padded.
C5_FirstThreeAxesOnly ==
    (zoom_pc = "returned" /\ keep_size)
    => \A d \in 1..Len(zin_shape) :
          IF d <= 3 THEN Reconciled(d) ELSE KeepsZoomedAxis(d)

\* C5 amended: with keep_size=True the first three axes are reconciled; an
\* axis with index 3 or higher is never cropped (a longer zoomed axis keeps
\* its zoomed length) but a shorter one is padded like the first three.
C5_CropFirstThreePadAll ==
    (zoom_pc = "returned" /\ keep_size)
    => \A d \in 1..Len(zin_shape) :
          IF d <= 3 THEN Reconciled(d)
          ELSE IF zoomed_shape[d] < zin_shape[d] THEN PaddedBothSides(d)
          ELSE KeepsZoomedAxis(d)

\* a 4-axis call whose first axis is cropped, whose second axis is padded
\* on both sides and whose fourth axis is padded over an odd gap
C5_Witness ==
    /\ zoom_pc = "returned"
    /\ keep_size
    /\ Len(zin_shape) = 4
    /\ zoomed_shape[1] > zin_shape[1]
    /\ zin_shape[2] - zoomed_shape[2] > 1
    /\ zoomed_shape[4] < zin_shape[4]
    /\ (zin_shape[4] - zoomed_shape[4]) % 2 = 1

-----------------------------------------------------------------------------
(* Properties of RandRotate90, checked under SpecRand.                     *)

\* C6: every call consumes exactly two draws, first randint(max_k) and then
\* random(), whether or not the rotation is applied: after n calls exactly
\* 2n draws have been made, alternating count, decision.
C6_TwoDrawsPerCall ==
    /\ Len(draws) = 2 * rr_calls
    /\ \A i \in 1..rr_calls :
          /\ draws[2 * i - 1] = "randint"
          /\ draws[2 * i] = "random"

\* after MaxCalls calls of an instance that rotated in its last call
C6_Witness ==
    /\ rr_calls = MaxCalls
    /\ do_transform
    /\ prob_arg > 0
    /\ prob_arg < RandDen

\* out is m turned k times by 90 degrees from image axis 1 towards axis 2
TurnedBy(m, out, k) ==
    LET h == Rows(m)
        w == Cols(m)
    IN  IF k % 4 = 0 THEN out = m
        ELSE IF k % 4 = 1
        THEN /\ Rows(out) = w /\ Cols(out) = h
             /\ \A i \in 1..w, j \in 1..h : out[i][j] = m[j][w + 1 - i]
        ELSE IF k % 4 = 2
        THEN /\ Rows(out) = h /\ Cols(out) = w
             /\ \A i \in 1..h, j \in 1..w : out[i][j] = m[h + 1 - i][w + 1 - j]
        ELSE /\ Rows(out) = w /\ Cols(out) = h
             /\ \A i \in 1..w, j \in 1..h : out[i][j] = m[h + 1 - j][i]

\* C7: an instance built with prob <= 0 returns the very input object
\* unchanged on every call; one built with prob >= 1 applies Rotate90 on
\* every call with a rotation count in 1..max_k.
C7_ProbExtremes ==
    (rr_calls > 0 /\ rr_err = "")
    => /\ prob_arg <= 0 => (rr_out.is_input /\ rr_out.data = rr_img)
       /\ prob_arg >= RandDen =>
             /\ ~rr_out.is_input
             /\ rand_k \in 1..max_k
             /\ TurnedBy(rr_img, rr_out.data,
                         IF rr_axes = <<1, 2>> THEN rand_k ELSE 4 - (rand_k % 4))

\* a call of an instance built with prob = 0 whose decision draw was 0, after
\* a call before it
C7_Witness ==
    /\ rr_calls > 1
    /\ prob_arg = 0
    /\ max_k = 3
    /\ rr_out.is_input
    /\ rr_img = <<<<1, 2>>, <<3, 4>>>>

-----------------------------------------------------------------------------
(* Properties of ImageEndPadder, checked under SpecPad.                    *)

PadCalled == pad_pc \in {"returned", "failed"}

\* axis d of the result shows the first n input elements in order and fill
\* from there to its length len
BlockThenFill(d, n, len) ==
    /\ Len(pad_out[d]) = len
    /\ \A i \in 1..len : pad_out[d][i] = IF i <= n THEN i - 1 ELSE Fill

\* C8 as stated: out_size=[1,6,6], mode='constant' on an input of shape
\* (1, 4, 4) returns shape (1, 6, 6) with the original 4x4 block at
\* [0:4, 0:4] and zeros elsewhere.
C8_PadExample ==
    (PadCalled /\ out_size = <<1, 6, 6>> /\ pad_mode = "constant"
        /\ pad_in = <<1, 4, 4>>)
    => /\ pad_pc = "returned"
       /\ ShapeOf(pad_out) = <<1, 6, 6>>
       /\ BlockThenFill(1, 1, 1)
       /\ BlockThenFill(2, 4, 6)
       /\ BlockThenFill(3, 4, 6)

\* C8 amended: out_size=[1,6,6] on an input of shape (1, 4, 4) raises an
\* IndexError (out_size has more entries than the input has axes from index
\* 2 on); out_size=[6,6], mode='constant' on an input of shape (1, 1, 4, 4)
\* returns shape (1, 1, 6, 6) with the original 4x4 block at
\* [0, 0, 0:4, 0:4] and zeros elsewhere.
C8_PadExampleBatched ==
    /\ (PadCalled /\ out_size = <<1, 6, 6>> /\ pad_in = <<1, 4, 4>>)
       => (pad_pc = "failed" /\ pad_err = "IndexError")
    /\ (PadCalled /\ out_size = <<6, 6>> /\ pad_mode = "constant"
           /\ pad_in = <<1, 1, 4, 4>>)
       => /\ pad_pc = "returned"
          /\ ShapeOf(pad_out) = <<1, 1, 6, 6>>
          /\ BlockThenFill(1, 1, 1)
          /\ BlockThenFill(2, 1, 1)
          /\ BlockThenFill(3, 4, 6)
          /\ BlockThenFill(4, 4, 6)

\* the call of the example, on the batched input
C8_Witness ==
    /\ pad_pc = "returned"
    /\ out_size = <<6, 6>>
    /\ pad_mode = "constant"
    /\ pad_in = <<1, 1, 4, 4>>

\* C9: for an input with at least two leading axes and one out_size entry
\* per axis from index 2 on, the call leaves axes 0 and 1 at their length,
\* gives axis 2+i the length max(input length, out_size[i]) and adds all
\* padding after the last original element (pad-before 0, pad-after >= 0).
C9_PadsSpatialAxesAtEnd ==
    (PadCalled /\ Len(pad_in) >= 2 /\ Len(out_size) = Len(pad_in) - 2)
    => /\ pad_pc = "returned"
       /\ Len(pad_out) = Len(pad_in)
       /\ Len(pad_out[1]) = pad_in[1]
       /\ Len(pad_out[2]) = pad_in[2]
       /\ \A i \in 1..Len(out_size) :
             Len(pad_out[2 + i]) = Max(pad_in[2 + i], out_size[i])
       /\ \A d \in 1..Len(pad_in) :
             /\ pad_width[d][1] = 0
             /\ pad_width[d][2] >= 0
             /\ \A j \in 1..pad_in[d] : pad_out[d][j] = j - 1

\* a call that pads one spatial axis and leaves a longer one alone, on an
\* input whose leading axes have more than one element
C9_Witness ==
    /\ pad_pc = "returned"
    /\ Len(pad_in) = 4
    /\ pad_in[1] > 1
    /\ pad_in[2] > 1
    /\ out_size[1] > pad_in[3]
    /\ out_size[2] < pad_in[4]

-----------------------------------------------------------------------------
(* Properties of AsChannelFirst, checked under SpecACF.                    *)

\* the last axis of img first, the others after it in their order
LastAxisFirst(img) ==
    [i \in 1..Len(img) |-> IF i = 1 THEN img[Len(img)] ELSE img[i - 1]]

\* C10: on an instance built with the default channel_dim, every call of a
\* sequence of calls, on inputs whose number of axes may differ from call to
\* call, moves that input's last axis to position 0 and keeps the other axes
\* in their order; a call does not change the instance's configuration.
C10_DefaultMovesLastAxis ==
    (acf_calls > 0 /\ channel_dim_arg = -1)
    => /\ acf_err = ""
       /\ acf_out = LastAxisFirst(acf_in)
       /\ channel_dim = channel_dim_arg

\* the last two calls were AsChannelFirst(c) on a fresh array and then on
\* the result of that call, with c one of the axes of the array
AppliedTwice ==
    /\ acf_chain = 2
    /\ acf_err = ""
    /\ channel_dim_arg \in 0..Len(acf_in) - 1

\* the result has the axis order of the fresh array
OriginalOrder == acf_out = Identity(Len(acf_out))

\* C11 as stated: for every array with n axes and every channel position c
\* in 0..n-1, AsChannelFirst(c) applied twice yields the original axis order.
C11_TwiceRestoresOrder == AppliedTwice => OriginalOrder

\* C11 amended: AsChannelFirst(c) applied twice yields the original axis
\* order for c = 0 and c = 1, and an order different from the original for
\* every c from 2 to n - 1.
C11_TwiceRestoresOrderUpToOne ==
    AppliedTwice => (OriginalOrder <=> channel_dim_arg <= 1)

\* channel position 1 applied twice to an array of at least three axes
C11_Witness ==
    /\ AppliedTwice
    /\ channel_dim_arg = 1
    /\ Len(acf_in) >= 3
    /\ acf_in # acf_out

====
